---- MODULE Spec2Model ----
(***************************************************************************)
(* Render-job pipeline of MegaArtsStore-Backend.                           *)
(*                                                                         *)
(* The Job Store is the render_jobs collection (app/services/job_service   *)
(* .py), one document per job.  A job is created by the /render/process    *)
(* route, which also schedules one run of process_job_background for it.   *)
(* Each await of a run is one step; every Job Store call of a run either   *)
(* succeeds, raises before the write is applied (update_one raises), or    *)
(* raises after it (the get_job_by_id that ends update_job_status and      *)
(* update_job_outputs raises).                                             *)
(*                                                                         *)
(* _simulate_processing starts with                                        *)
(*     from app.services.storage_service import upload_file   (line 217)   *)
(* and storage_service.py defines no upload_file, so the statement raises  *)
(* ImportError before the try of line 221: the Python-renderer body        *)
(* (lines 221-318) and _simulate_processing_fallback (lines 321-362) are   *)
(* never executed, and a run with Blender disabled goes from line 217      *)
(* straight to the handler of line 205.                                    *)
(*                                                                         *)
(* The task queue (app/services/task_queue.py) is started and stopped by   *)
(* main.py's lifespan.  Its workers are asyncio tasks: a worker's step     *)
(* runs from one suspension (queue.get, the awaited task function) to the  *)
(* next.  No route enqueues a render job on it: the runs above are started *)
(* by FastAPI's BackgroundTasks.                                           *)
(***************************************************************************)
EXTENDS Integers, Sequences, FiniteSets, TLC

\* ---------------------------------------------------------------- bounds
JobIds == {"j1", "j2"}
ApiJobs == {"j1"}
Products == {"p1", "p2"}
RunProducts == {"p1"}
MaxClock == 2
MaxApiCalls == 4
\* TaskQueue(max_workers=...): the size of the worker pool (task_queue.py
\* builds the global queue with 5)
max_workers == 2
\* The tasks enqueued: with two of them running, as many again can wait.
MaxTasks == 4
\* The requests that change stock concurrently.
RequestIds == {"r1", "r2"}
\* The stock a product starts with, the quantity of one order item and the
\* number of items of one order.
MaxStock == 2
MaxQuantity == 2
MaxItems == 2
\* The product ids a request can name: the catalogue and an id of no product.
OrderProducts == Products \cup {"p0"}
\* Enough render jobs to outnumber the workers.
PoolJobIds == {"j" \o ToString(i) : i \in 1..(max_workers + 1)}

\* ------------------------------------------------------- optional values
\* Python None and a present value x.
None == <<>>
Some(x) == <<x>>
Get(o) == o[1]

\* Python truthiness of an Optional[str] (if error:, if log_message:).
Truthy(o) == o # None /\ Get(o) # ""

\* ------------------------------------------------------------- constants
\* The statuses in pipeline order (RenderJobDocument.get_status_display)
StatusOrder == <<"pending", "validating", "cleaning", "optimizing",
                 "rendering", "exporting", "completed">>
\* if status in ["completed", "failed"], line 96
TerminalStatuses == {"completed", "failed"}

ImportErrorMessage == "cannot import name 'upload_file' from 'app.services.storage_service'"
JobNotFoundMessage == "Job not found"
StoreErrors == {"ServerSelectionTimeoutError"}

SettingsChoices == [blender_enabled : BOOLEAN, blender_path : {"", "/usr/bin/blender"}]

\* The times datetime.utcnow() can return after it last returned t.
Times(t) == {t, t + 1} \cap (1..MaxClock)

VARIABLES
    jobs,       \* render_jobs collection: job_id -> document
    clock,      \* the last value datetime.utcnow() returned
    pc,         \* job_id -> position of the job's process_job_background run
    settings,   \* job_id -> the settings the run read at line 187
    exc,        \* job_id -> the exception the run last raised (None: none)
    writes,     \* job_id -> the (status, progress) pairs the job's run has stored
    apiCalls,   \* number of direct calls made on the job_service functions
    task_queue, \* the global TaskQueue of task_queue.py: its fields
    lifespan,   \* position of main.py's lifespan (startup, serving, shutdown)
    tasks_at_stop, \* the number of tasks enqueued before stop() was called
    response,   \* job_id -> the last response of GET /render/result/{job_id}
    products,   \* products collection: product_id -> document (stock, ar_config)
    requests    \* request id -> the inventory or order call it is running

\* The variables of the task queue.
qvars == <<task_queue, lifespan, tasks_at_stop>>
\* The variables of the render jobs.
jvars == <<jobs, pc, settings, exc, writes, apiCalls, response>>
\* The variables of the shop: products and the calls that change their stock.
svars == <<products, requests>>
vars == <<jobs, clock, pc, settings, exc, writes, apiCalls, task_queue, lifespan,
          tasks_at_stop, response, products, requests>>

\* ---------------------------------------------------------- the documents
\* create_document stamping started_at as well as created_at
create_document_started(job_id, product_id, input_file, now) ==
    [ job_id       |-> job_id,
      product_id   |-> product_id,
      input_file   |-> input_file,
      job_type     |-> "full_render",
      status       |-> "pending",
      progress     |-> 0,
      output_files |-> <<>>,
      ar_config    |-> None,
      error        |-> None,
      logs         |-> <<>>,
      created_at   |-> Some(now),
      started_at   |-> Some(now),
      completed_at |-> None ]

\* RenderJobDocument.create_document
create_document(job_id, product_id, input_file, now) ==
    [ job_id       |-> job_id,
      product_id   |-> product_id,
      input_file   |-> input_file,
      job_type     |-> "full_render",
      status       |-> "pending",
      progress     |-> 0,
      output_files |-> <<>>,
      ar_config    |-> None,
      error        |-> None,
      logs         |-> <<>>,
      created_at   |-> Some(now),
      started_at   |-> None,
      completed_at |-> None ]

\* A request id that no call is using yet.  A call keeps its items, the index
\* of the item it is at, the new_stock it has computed, the result it ended
\* with, and (for the properties) the stock of every product when it began.
NoRequest ==
    [ op |-> "none", pc |-> "idle", items |-> <<>>, index |-> 0,
      new_stock |-> 0, before |-> <<>>, result |-> None ]

\* ProductDocument.create_document (models/product.py): the fields the render
\* result and the inventory touch
product_document(stock) ==
    [ stock     |-> stock,
      ar_config |-> Some([ scale          |-> 1,
                           rotation       |-> <<0, 0, 0>>,
                           offset         |-> <<0, 0, 0>>,
                           wrist_diameter |-> 0 ]) ]

\* get_job_by_id: the document, or None
get_job_by_id(store, job_id) ==
    IF job_id \in DOMAIN store THEN Some(store[job_id]) ELSE None

\* _job_has_started
_job_has_started(store, job_id) ==
    LET job == get_job_by_id(store, job_id)
    IN  job # None /\ Get(job).started_at # None

\* The $set document update_job_status builds (lines 88-100), as the set of
\* fields it assigns.
update_doc_fields(store, job_id, status, progress, error) ==
    {"status"}
    \cup (IF progress # None THEN {"progress"} ELSE {})
    \cup (IF status = "processing" /\ ~_job_has_started(store, job_id)
          THEN {"started_at"} ELSE {})
    \cup (IF status \in TerminalStatuses THEN {"completed_at"} ELSE {})
    \cup (IF Truthy(error) THEN {"error"} ELSE {})

\* f"[{datetime.utcnow().isoformat()}] {log_message}"
LogLine(t, message) == [at |-> t, text |-> message]

\* A plausible slip: the log line stored with $set instead of $push.
set_logs(logs, line) == <<line>>

\* update_op["$push"] = {"logs": ...}, lines 105-106
push_logs(logs, line) == Append(logs, line)

\* update_job_status, lines 86-111: the document after update_one.  now is
\* what datetime.utcnow() returns at lines 94, 97 and 106, which no await
\* separates.
update_job_status(store, job_id, status, progress, log_message, error, now) ==
    IF job_id \notin DOMAIN store
    THEN store
    ELSE LET old == store[job_id]
             set == update_doc_fields(store, job_id, status, progress, error)
         IN  [store EXCEPT ![job_id] =
                [ old EXCEPT
                    !.status       = status,
                    !.progress     = IF "progress" \in set THEN Get(progress) ELSE @,
                    !.started_at   = IF "started_at" \in set THEN Some(now) ELSE @,
                    !.completed_at = IF "completed_at" \in set THEN Some(now) ELSE @,
                    !.error        = IF "error" \in set THEN error ELSE @,
                    !.logs         = IF Truthy(log_message)
                                     THEN push_logs(@, LogLine(now, Get(log_message)))
                                     ELSE @ ]]

\* update_job_outputs, lines 138-148.  A dict is truthy when it is not empty.
update_job_outputs(store, job_id, output_files, ar_config) ==
    IF job_id \notin DOMAIN store
    THEN store
    ELSE [store EXCEPT ![job_id] =
            [ @ EXCEPT
                !.output_files = output_files,
                !.ar_config    = IF ar_config # None /\ DOMAIN Get(ar_config) # {}
                                 THEN ar_config ELSE @ ]]


\* ------------------------------------------------------ the run's store calls
\* What a Job Store call of a run can do: return, raise before its update_one
\* is applied, or raise in the get_job_by_id that follows the update_one.
Outcomes == {"ok", "write_raises", "read_raises"}

\* A plausible slip: the $set and the $push sent as two update_one calls, the
\* record readable between them.
StatusStep_split(j, status, progress, log_message, error, okPc, failPc) ==
    \/ /\ jobs' = update_job_status(jobs, j, status, progress, None, None, clock)
       /\ UNCHANGED <<clock, pc, exc, writes, settings, apiCalls, qvars, response, svars>>
    \/ \E now \in Times(clock) :
       \E outcome \in Outcomes : \E m \in StoreErrors :
        /\ clock' = now
        /\ jobs' = IF outcome = "write_raises" THEN jobs
                   ELSE update_job_status(jobs, j, status, progress, log_message,
                                          error, now)
        /\ writes' = IF outcome = "write_raises" THEN writes
                     ELSE [writes EXCEPT ![j] =
                             Append(@, [status |-> status, progress |-> progress])]
        /\ pc' = [pc EXCEPT ![j] = IF outcome = "ok" THEN okPc ELSE failPc]
        /\ exc' = IF outcome = "ok" \/ failPc = "crashed" THEN exc
                  ELSE [exc EXCEPT ![j] = Some(m)]
        /\ UNCHANGED <<settings, apiCalls, qvars, response, svars>>

\* One "await update_job_status(...)" of a run at pc[j], lines 86-113.  A call
\* of the try block that raises hands its exception to the handler (failPc =
\* "L206"); the handler's own call that raises ends the run ("crashed"), and
\* exc keeps the exception the handler was given.
StatusStep(j, status, progress, log_message, error, okPc, failPc) ==
    \E now \in Times(clock) :
    \E outcome \in Outcomes : \E m \in StoreErrors :
        /\ clock' = now
        /\ jobs' = IF outcome = "write_raises" THEN jobs
                   ELSE update_job_status(jobs, j, status, progress, log_message,
                                          error, now)
        /\ writes' = IF outcome = "write_raises" THEN writes
                     ELSE [writes EXCEPT ![j] =
                             Append(@, [status |-> status, progress |-> progress])]
        /\ pc' = [pc EXCEPT ![j] = IF outcome = "ok" THEN okPc ELSE failPc]
        /\ exc' = IF outcome = "ok" \/ failPc = "crashed" THEN exc
                  ELSE [exc EXCEPT ![j] = Some(m)]
        /\ UNCHANGED <<settings, apiCalls, qvars, response, svars>>

\* One "await update_job_outputs(...)" of a run at pc[j], lines 138-150.
OutputsStep(j, output_files, ar_config, okPc, failPc) ==
    \E outcome \in Outcomes : \E m \in StoreErrors :
        /\ jobs' = IF outcome = "write_raises" THEN jobs
                   ELSE update_job_outputs(jobs, j, output_files, ar_config)
        /\ pc' = [pc EXCEPT ![j] = IF outcome = "ok" THEN okPc ELSE failPc]
        /\ exc' = IF outcome = "ok" THEN exc ELSE [exc EXCEPT ![j] = Some(m)]
        /\ UNCHANGED <<clock, writes, settings, apiCalls, qvars, response, svars>>

\* ------------------------------------------------- POST /render/process
\* The product's uploaded model (product["model_3d"]).
model_3d(product_id) == "https://res.cloudinary.com/models/" \o product_id

\* ------------------------------------- blender_scripts/model_validator.py
\* ModelValidator.MAX_POLYGON_COUNT
MAX_POLYGON_COUNT == 100000

\* The polygons of the meshes of a model file: the model of product p2 is
\* too heavy for mobile AR.
polygon_count(input_file) ==
    IF input_file = model_3d("p2") THEN 250000 ELSE 20000

\* _check_polygon_count, lines 91-109: the issue of a model over the limit
_check_polygon_count(input_file) ==
    IF polygon_count(input_file) > MAX_POLYGON_COUNT
    THEN << "Polygon count too high: " \o ToString(polygon_count(input_file))
            \o " (max: " \o ToString(MAX_POLYGON_COUNT) \o ")" >>
    ELSE << >>

\* ModelValidator.validate, lines 40-72.  Outside Blender (bpy cannot be
\* imported) the result is _mock_validation's, lines 216-227.
validate(IN_BLENDER, input_file) ==
    IF ~IN_BLENDER
    THEN [valid |-> TRUE, issues |-> <<"Not running in Blender - validation skipped">>]
    ELSE [valid |-> _check_polygon_count(input_file) = << >>,
          issues |-> _check_polygon_count(input_file)]

\* process_model: create_job inserts the document under a uuid4 job_id and
\* the run is handed to BackgroundTasks.
process_model(j, product_id) ==
    /\ j \notin DOMAIN jobs
    /\ product_id \in Products
    /\ \E now \in Times(clock) :
        /\ clock' = now
        /\ jobs' = jobs @@ (j :> create_document(j, product_id, model_3d(product_id), now))
    /\ pc' = [pc EXCEPT ![j] = "queued"]
    /\ UNCHANGED <<settings, exc, writes, apiCalls, qvars, response, svars>>

\* ------------------------------------------------ process_job_background
\* line 187: settings = get_settings(), of the server process running the task
StartRun(j) ==
    /\ pc[j] = "queued"
    /\ \E s \in SettingsChoices : settings' = [settings EXCEPT ![j] = s]
    /\ pc' = [pc EXCEPT ![j] = "L191"]
    /\ UNCHANGED <<jobs, clock, exc, writes, apiCalls, qvars, response, svars>>

\* line 191
Validating(j) ==
    /\ pc[j] = "L191"
    /\ StatusStep(j, "validating", Some(10), Some("Starting validation..."), None,
                  "L195", "L206")

\* line 195
Cleaning(j) ==
    /\ pc[j] = "L195"
    /\ StatusStep(j, "cleaning", Some(25), Some("Validating model structure..."), None,
                  "L198", "L206")

\* line 198: if settings.blender_enabled and settings.blender_path
BlenderSelected(s) == s.blender_enabled /\ s.blender_path # ""

SelectBackend(j) ==
    /\ pc[j] = "L198"
    /\ pc' = [pc EXCEPT ![j] = IF BlenderSelected(settings[j]) THEN "L371" ELSE "L217"]
    /\ UNCHANGED <<jobs, clock, settings, exc, writes, apiCalls, qvars, response, svars>>

\* _simulate_processing, lines 216-217: the import of upload_file raises.
SimulateProcessing(j) ==
    /\ pc[j] = "L217"
    /\ exc' = [exc EXCEPT ![j] = Some(ImportErrorMessage)]
    /\ pc' = [pc EXCEPT ![j] = "L206"]
    /\ UNCHANGED <<jobs, clock, settings, writes, apiCalls, qvars, response, svars>>

\* _run_blender_processing, lines 370-377: the lookup of the job
BlenderGetJob(j) ==
    /\ pc[j] = "L371"
    /\ \E outcome \in {"ok", "read_raises"} : \E m \in StoreErrors :
        LET job == get_job_by_id(jobs, j)
            raised == IF outcome = "read_raises" THEN Some(m)
                      ELSE IF job = None THEN Some(JobNotFoundMessage)
                      ELSE None
        IN  /\ exc' = IF raised = None THEN exc ELSE [exc EXCEPT ![j] = raised]
            /\ pc' = [pc EXCEPT ![j] = IF raised = None THEN "L389" ELSE "L206"]
    /\ UNCHANGED <<jobs, clock, settings, writes, apiCalls, qvars, response, svars>>

\* line 389
BlenderCleaning(j) ==
    /\ pc[j] = "L389"
    /\ StatusStep(j, "cleaning", Some(30), Some("Running model cleaner..."), None,
                  "L392", "L206")

\* line 392
BlenderOptimizing(j) ==
    /\ pc[j] = "L392"
    /\ StatusStep(j, "optimizing", Some(50), Some("Optimizing mesh for AR..."), None,
                  "L395", "L206")

\* line 395
BlenderRendering(j) ==
    /\ pc[j] = "L395"
    /\ StatusStep(j, "rendering", Some(70), Some("Generating preview renders..."), None,
                  "L398", "L206")

\* line 398
BlenderExporting(j) ==
    /\ pc[j] = "L398"
    /\ StatusStep(j, "exporting", Some(90),
                  Some("Exporting GLB with Draco compression..."), None,
                  "L411", "L206")

\* lines 402-409; lengths in tenths (6.5 and 0.5)
BlenderArConfig ==
    [ scale            |-> 10,
      rotation         |-> <<0, 0, 0>>,
      offset           |-> <<0, 0, 0>>,
      wrist_diameter   |-> 65,
      bangle_thickness |-> 5,
      center_point     |-> <<0, 0, 0>> ]

\* lines 413-419
BlenderOutputFiles ==
    [ glb            |-> None,
      preview_front  |-> None,
      preview_angle  |-> None,
      preview_detail |-> None,
      turntable      |-> None ]

\* line 411
BlenderOutputs(j) ==
    /\ pc[j] = "L411"
    /\ OutputsStep(j, BlenderOutputFiles, Some(BlenderArConfig), "L423", "L206")

\* line 423
BlenderCompleted(j) ==
    /\ pc[j] = "L423"
    /\ StatusStep(j, "completed", Some(100), Some("Blender processing complete"), None,
                  "done", "L206")

\* A plausible slip: the handler resets the progress of the failed job.
FailureProgressReset == Some(0)

\* lines 206-211: the handler passes no progress
FailureProgress == None

\* A plausible slip: the handler writes a status name the pipeline does not
\* have, and the job carries an error without being failed.
FailureStatusSlip == "error"

\* line 208: the status the handler writes
FailureStatus == "failed"

\* lines 205-211: except Exception as e.  An exception of the handler's own
\* store call leaves process_job_background.
HandleException(j) ==
    /\ pc[j] = "L206"
    /\ StatusStep(j, FailureStatus, FailureProgress,
                  Some("Processing failed: " \o Get(exc[j])),
                  Some(Get(exc[j])), "done", "crashed")

\* ------------------------------------------- app/services/task_queue.py
\* A task_id is a uuid4; the model numbers the tasks in the order of their
\* enqueue calls.  A worker is at line 64 (created, or back at the while), at
\* line 66 (suspended in queue.get), at line 75 (awaiting the task function)
\* or done.
TaskStatus == [PENDING |-> "pending", RUNNING |-> "running",
               COMPLETED |-> "completed", FAILED |-> "failed"]
TaskOutcomes == {"returns", "raises"}
TaskErrorMessage == "task failed"

\* datetime.utcnow() in the task queue: its steps read the clock and leave
\* it as it is (nothing in the queue compares two timestamps).
utcnow == clock

\* TaskQueue.__init__, lines 31-36; unfinished is the count asyncio.Queue
\* keeps for join (put adds one, task_done takes one away).
TaskQueue ==
    [ queue      |-> << >>,
      unfinished |-> 0,
      tasks      |-> << >>,
      workers    |-> << >>,
      running    |-> FALSE ]

\* lines 120-129: the metadata enqueue stores
task_metadata(task_id, now) ==
    [ id           |-> task_id,
      status       |-> TaskStatus.PENDING,
      created_at   |-> now,
      started_at   |-> None,
      completed_at |-> None,
      result       |-> None,
      error        |-> None ]

\* A plausible slip: the task is marked running and started_at is left null.
get_unstamped(q, w, now) ==
    LET task_id == Head(q.queue)
    IN  [q EXCEPT !.queue = Tail(@),
                  !.tasks[task_id].status = TaskStatus.RUNNING,
                  !.workers[w] = [at |-> "L75", task_id |-> Some(task_id), cancel |-> FALSE]]

\* lines 66-75: queue.get returns the oldest item, the worker marks the task
\* running and awaits the task function.
get(q, w, now) ==
    LET task_id == Head(q.queue)
    IN  [q EXCEPT !.queue = Tail(@),
                  !.tasks[task_id].status = TaskStatus.RUNNING,
                  !.tasks[task_id].started_at = Some(now),
                  !.workers[w] = [at |-> "L75", task_id |-> Some(task_id), cancel |-> FALSE]]

\* A plausible slip: the loop is left when the task raised.
loop_again_unless_raised(q, outcome) == q.running /\ outcome # "raises"

\* line 64: while self.running.  The exception of a task is caught at line
\* 84 and does not leave the loop.
loop_again(q, outcome) == q.running

\* lines 64-66: the worker leaves the loop when running is false; otherwise
\* it takes the oldest item at once, or waits in queue.get for one.
_worker_loop(q, w, now) ==
    IF q.queue # << >>
    THEN get(q, w, now)
    ELSE [q EXCEPT !.workers[w] = [at |-> "L66", task_id |-> None, cancel |-> FALSE]]

\* A plausible slip: a task that raised keeps the status running.
finished_status_unless_raised(outcome) ==
    IF outcome = "returns" THEN TaskStatus.COMPLETED ELSE TaskStatus.RUNNING

\* lines 80 and 86: the status of a task whose function returned or raised
finished_status(outcome) ==
    IF outcome = "returns" THEN TaskStatus.COMPLETED ELSE TaskStatus.FAILED

\* lines 79-91: the task is marked completed or failed, and task_done
task_finished(q, task_id, outcome, now) ==
    [q EXCEPT !.tasks[task_id].status = finished_status(outcome),
              !.tasks[task_id].result = IF outcome = "returns" THEN Some("result") ELSE @,
              !.tasks[task_id].error = IF outcome = "raises" THEN Some(TaskErrorMessage) ELSE @,
              !.tasks[task_id].completed_at = Some(now),
              !.unfinished = @ - 1]

\* lines 57-58: worker.cancel() for every worker that has not ended
cancel_workers(q) ==
    [q EXCEPT !.workers = [w \in DOMAIN @ |->
        IF @[w].at = "done" THEN @[w] ELSE [@[w] EXCEPT !.cancel = TRUE]]]

\* lines 140-155: get_queue_stats
get_queue_stats(q) ==
    LET count(status) == Cardinality({t \in DOMAIN q.tasks : q.tasks[t].status = status})
    IN  [ queue_size  |-> Len(q.queue),
          total_tasks |-> Len(q.tasks),
          pending     |-> count(TaskStatus.PENDING),
          running     |-> count(TaskStatus.RUNNING),
          completed   |-> count(TaskStatus.COMPLETED),
          failed      |-> count(TaskStatus.FAILED),
          workers     |-> max_workers ]

\* A worker that has ended: the loop was left, or the task was cancelled.
worker_done == [at |-> "done", task_id |-> None, cancel |-> FALSE]

\* main.py line 31, task_queue.py lines 38-47: start() at application startup
start ==
    /\ lifespan = "startup"
    /\ task_queue' =
         IF task_queue.running THEN task_queue
         ELSE [task_queue EXCEPT
                 !.running = TRUE,
                 !.workers = [w \in 1..max_workers |->
                                [at |-> "L64", task_id |-> None, cancel |-> FALSE]]]
    /\ lifespan' = "serving"
    /\ UNCHANGED <<clock, tasks_at_stop, jvars, svars>>

\* lines 98-134: enqueue.  It looks at neither running nor the workers.
enqueue ==
    /\ Len(task_queue.tasks) < MaxTasks
    /\ task_queue' =
             LET task_id == Len(task_queue.tasks) + 1
             IN  [task_queue EXCEPT
                    !.tasks = Append(@, task_metadata(task_id, utcnow)),
                    !.queue = Append(@, task_id),
                    !.unfinished = @ + 1]
    /\ UNCHANGED <<clock, lifespan, tasks_at_stop, jvars, svars>>

\* task_done, line 91: when it brings the count of unfinished puts to 0 it
\* wakes the queue.join() of a stop() waiting at line 54, which then goes on
\* to line 57 whatever is enqueued in between.
join_woken(q) ==
    IF lifespan = "L54" /\ q.unfinished = 0 THEN "L57" ELSE lifespan

\* lines 62-66: the first step of a worker
WorkerStart(w) ==
    /\ w \in DOMAIN task_queue.workers
    /\ task_queue.workers[w].at = "L64"
    /\ ~task_queue.workers[w].cancel
    /\ task_queue' =
             IF task_queue.running
             THEN _worker_loop(task_queue, w, utcnow)
             ELSE [task_queue EXCEPT !.workers[w] = worker_done]
    /\ UNCHANGED <<clock, lifespan, tasks_at_stop, jvars, svars>>

\* line 66: a worker waiting in queue.get is given an item
WorkerGet(w) ==
    /\ w \in DOMAIN task_queue.workers
    /\ task_queue.workers[w].at = "L66"
    /\ ~task_queue.workers[w].cancel
    /\ task_queue.queue # << >>
    /\ task_queue' = get(task_queue, w, utcnow)
    /\ UNCHANGED <<clock, lifespan, tasks_at_stop, jvars, svars>>

\* lines 75-91 and 64-66: the task function returns or raises, the task is
\* marked and task_done is called; the worker then leaves the loop, takes
\* the next item or waits for one.
WorkerFinish(w) ==
    /\ w \in DOMAIN task_queue.workers
    /\ task_queue.workers[w].at = "L75"
    /\ ~task_queue.workers[w].cancel
    /\ \E outcome \in TaskOutcomes :
        task_queue' =
             LET q == task_finished(task_queue, Get(task_queue.workers[w].task_id),
                                    outcome, utcnow)
             IN  IF loop_again(q, outcome)
                 THEN _worker_loop(q, w, utcnow)
                 ELSE [q EXCEPT !.workers[w] = worker_done]
    /\ lifespan' = join_woken(task_queue')
    /\ UNCHANGED <<clock, tasks_at_stop, jvars, svars>>

\* lines 90-94: CancelledError reaches a cancelled worker.  In the task
\* function it passes except Exception, task_done is called by the finally
\* and the task keeps the status running.
WorkerCancelled(w) ==
    /\ w \in DOMAIN task_queue.workers
    /\ task_queue.workers[w].at # "done"
    /\ task_queue.workers[w].cancel
    /\ task_queue' =
         [task_queue EXCEPT
            !.workers[w] = worker_done,
            !.unfinished = IF task_queue.workers[w].at = "L75" THEN @ - 1 ELSE @]
    /\ lifespan' = join_woken(task_queue')
    /\ UNCHANGED <<clock, tasks_at_stop, jvars, svars>>

\* lines 62-96
_worker(w) ==
    \/ WorkerStart(w)
    \/ WorkerGet(w)
    \/ WorkerFinish(w)
    \/ WorkerCancelled(w)

\* main.py line 37, task_queue.py lines 51-58: stop() at shutdown.
\* queue.join returns at once when no put is unfinished.
stop ==
    /\ lifespan = "serving"
    /\ task_queue' =
         IF task_queue.unfinished = 0
         THEN cancel_workers([task_queue EXCEPT !.running = FALSE])
         ELSE [task_queue EXCEPT !.running = FALSE]
    /\ lifespan' = IF task_queue.unfinished = 0 THEN "L60" ELSE "L54"
    /\ tasks_at_stop' = Len(task_queue.tasks)
    /\ UNCHANGED <<clock, jvars, svars>>

\* lines 54-58: queue.join has been woken, the workers are cancelled
stop_joined ==
    /\ lifespan = "L57"
    /\ task_queue' = cancel_workers(task_queue)
    /\ lifespan' = "L60"
    /\ UNCHANGED <<clock, tasks_at_stop, jvars, svars>>

\* line 60: gather returns when every worker has ended
stop_returns ==
    /\ lifespan = "L60"
    /\ \A w \in DOMAIN task_queue.workers : task_queue.workers[w].at = "done"
    /\ lifespan' = "stopped"
    /\ UNCHANGED <<clock, task_queue, tasks_at_stop, jvars, svars>>

\* ---------------------------------------------------------- specification
InitRender ==
    /\ jobs = <<>>
    /\ clock = 1
    /\ pc = [j \in JobIds \cup PoolJobIds |-> "none"]
    /\ settings = [j \in JobIds \cup PoolJobIds |-> [blender_enabled |-> FALSE, blender_path |-> ""]]
    /\ exc = [j \in JobIds \cup PoolJobIds |-> None]
    /\ writes = [j \in JobIds \cup PoolJobIds |-> <<>>]
    /\ apiCalls = 0
    /\ task_queue = TaskQueue
    /\ lifespan = "startup"
    /\ tasks_at_stop = 0
    /\ response = [j \in JobIds \cup PoolJobIds |-> None]

\* The render pipeline starts with every product in the catalogue, each as
\* ProductDocument.create_document builds it with the default stock of 0.
Init ==
    /\ InitRender
    /\ products = [p \in Products |-> product_document(0)]
    /\ requests = [r \in RequestIds |-> NoRequest]

\* lines 179-211: the steps of one run
process_job_background(j) ==
    \/ StartRun(j)
    \/ Validating(j)
    \/ Cleaning(j)
    \/ SelectBackend(j)
    \/ SimulateProcessing(j)
    \/ BlenderGetJob(j)
    \/ BlenderCleaning(j)
    \/ BlenderOptimizing(j)
    \/ BlenderRendering(j)
    \/ BlenderExporting(j)
    \/ BlenderOutputs(j)
    \/ BlenderCompleted(j)
    \/ HandleException(j)

\* Two jobs of one product, their runs interleaved.
Next ==
    \E j \in JobIds :
        \/ \E p \in RunProducts : process_model(j, p)
        \/ process_job_background(j)

Spec == Init /\ [][Next]_vars

\* One job, of any product.
NextOneJob ==
    \E j \in ApiJobs :
        \/ \E p \in Products : process_model(j, p)
        \/ process_job_background(j)

SpecOneJob == Init /\ [][NextOneJob]_vars


\* Render jobs created one after the other, up to the start of their runs:
\* BackgroundTasks begins each run once the response of its request is sent.
NextPool ==
    \E j \in PoolJobIds :
        \/ \E p \in RunProducts : process_model(j, p)
        \/ StartRun(j)

SpecPool == Init /\ [][NextPool]_vars

\* The task queue over the life of the application.
NextQueue ==
    \/ start
    \/ enqueue
    \/ \E w \in 1..max_workers : _worker(w)
    \/ stop
    \/ stop_joined
    \/ stop_returns

SpecQueue == Init /\ [][NextQueue]_vars

\* The event loop runs every task that is ready, so a worker that can step
\* does, and so does stop() once join or gather can return; the task
\* functions return or raise.  The application need not ever shut down.
SpecQueueFair ==
    /\ Init /\ [][NextQueue]_vars
    /\ WF_vars(start)
    /\ \A w \in 1..max_workers : WF_vars(_worker(w))
    /\ WF_vars(stop_joined \/ stop_returns)

\* ------------------------------------------- direct calls of the service
\* Arguments a caller of job_service can pass.
ApiStatuses == {"pending", "processing", "completed", "failed"}
ApiProgress == {None, Some(50), Some(150)}
ApiMessages == {None, Some(""), Some("note")}
ApiOutputFiles == { <<>>, [glb |-> Some("glb-url")], [thumbnail |-> Some("png-url")] }
ApiArConfigs == {None, Some(<<>>), Some(BlenderArConfig)}

\* await update_job_status(job_id, status, progress, log_message, error)
ApiUpdateJobStatus(j) ==
    /\ apiCalls < MaxApiCalls
    /\ apiCalls' = apiCalls + 1
    /\ \E status \in ApiStatuses, progress \in ApiProgress :
       \E log_message \in ApiMessages, error \in ApiMessages :
       \E now \in Times(clock) :
        /\ clock' = now
        /\ jobs' = update_job_status(jobs, j, status, progress, log_message,
                                     error, now)
    /\ UNCHANGED <<pc, settings, exc, writes, qvars, response, svars>>

\* await update_job_outputs(job_id, output_files, ar_config)
ApiUpdateJobOutputs(j) ==
    /\ apiCalls < MaxApiCalls
    /\ apiCalls' = apiCalls + 1
    /\ \E output_files \in ApiOutputFiles, ar_config \in ApiArConfigs :
        jobs' = update_job_outputs(jobs, j, output_files, ar_config)
    /\ UNCHANGED <<clock, pc, settings, exc, writes, qvars, response, svars>>

\* A job created by the route and then driven by direct calls alone.  Every
\* update_one filters on job_id, so the calls are made on one job.
NextApi ==
    \E j \in ApiJobs :
        \/ \E p \in RunProducts : process_model(j, p)
        \/ ApiUpdateJobStatus(j)
        \/ ApiUpdateJobOutputs(j)

SpecApi == Init /\ [][NextApi]_vars

\* ------------------------------------------- GET /render/result/{job_id}
\* schemas/render.py: the slots of OutputFilesResponse
ResponseSlots == {"glb", "preview_front", "preview_angle", "preview_detail",
                  "turntable"}

\* dict.get: the stored value, or None
dict_get(d, key) == IF key \in DOMAIN d THEN d[key] ELSE None

\* routes/render.py lines 286-310, the fields of the result
_format_job_response(job) ==
    [ job_id       |-> job.job_id,
      product_id   |-> job.product_id,
      status       |-> job.status,
      progress     |-> job.progress,
      output_files |-> [slot \in ResponseSlots |-> dict_get(job.output_files, slot)],
      ar_config    |-> job.ar_config,
      error        |-> job.error ]

\* product_service.update_ar_config: update_one on the product's _id
update_ar_config(coll, product_id, ar_config) ==
    IF product_id \in DOMAIN coll
    THEN [coll EXCEPT ![product_id].ar_config = ar_config]
    ELSE coll

HTTPException(status_code, detail) ==
    [status_code |-> status_code, detail |-> detail, body |-> None]

\* routes/render.py lines 127-156
get_job_result(j) ==
    LET job == get_job_by_id(jobs, j) IN
    /\ IF job = None
       THEN /\ response' = [response EXCEPT ![j] =
                               Some(HTTPException(404, JobNotFoundMessage))]
            /\ UNCHANGED products
       ELSE IF Get(job).status # "completed"
       THEN /\ response' = [response EXCEPT ![j] =
                               Some(HTTPException(400, "Job is not completed"))]
            /\ UNCHANGED products
       ELSE /\ products' = IF Get(job).ar_config # None
                              /\ DOMAIN Get(Get(job).ar_config) # {}
                           THEN update_ar_config(products, Get(job).product_id,
                                                 Get(job).ar_config)
                           ELSE products
            /\ response' = [response EXCEPT ![j] =
                               Some([ status_code |-> 200,
                                      detail      |-> "",
                                      body        |-> Some(_format_job_response(Get(job))) ])]
    /\ UNCHANGED <<jobs, clock, pc, settings, exc, writes, apiCalls, qvars, requests>>

\* The direct calls of the service, with the result of the job read at any time.
NextResult ==
    \E j \in ApiJobs :
        \/ \E p \in RunProducts : process_model(j, p)
        \/ ApiUpdateJobStatus(j)
        \/ ApiUpdateJobOutputs(j)
        \/ get_job_result(j)

SpecResult == Init /\ [][NextResult]_vars


\* ------------------------------------------------------------ inventory
\* The stock of every product.
stock_of(coll) == [p \in DOMAIN coll |-> coll[p].stock]

\* The items of an order: product_id and quantity (schemas/order.py: ge=1).
OrderItem == [product_id : OrderProducts, quantity : 1..MaxQuantity]
OrderItems == UNION {[1..n -> OrderItem] : n \in 1..MaxItems}

\* A call begins: the request is given its arguments.
begin(r, op, at, items) ==
    /\ requests[r].op = "none"
    /\ requests' = [requests EXCEPT ![r] =
            [ op |-> op, pc |-> at, items |-> items, index |-> 1,
              new_stock |-> 0, before |-> stock_of(products), result |-> None ]]
    /\ UNCHANGED <<products, jvars, clock, qvars>>

\* The call ends, returning or raising.
end(req, result) == [req EXCEPT !.pc = "ended", !.result = Some(result)]

\* routes/inventory.py line 102: InventoryService.update_stock(product_id,
\* quantity_change) called by the stock route
call_update_stock(r) ==
    \E product_id \in OrderProducts :
    \E quantity_change \in (0 - MaxQuantity)..MaxQuantity :
        /\ quantity_change # 0
        /\ begin(r, "update_stock", "L29",
                 <<[product_id |-> product_id, quantity |-> 0 - quantity_change]>>)

\* InventoryService.reduce_stock_for_order(order_items)
call_reduce_stock_for_order(r) ==
    \E order_items \in OrderItems : begin(r, "reduce_stock_for_order", "L29", order_items)

\* POST /orders: create_order(order_data)
call_create_order(r) ==
    \E items \in OrderItems : begin(r, "create_order", "L49", items)

\* update_stock lines 29-37: find_one, then the two checks.  For
\* reduce_stock_for_order quantity_change is -quantity (lines 82-86), and the
\* ValueError is raised again at line 90: nothing is undone.
update_stock_find(r) ==
    LET req == requests[r]
        item == req.items[req.index]
        quantity_change == 0 - item.quantity
    IN  /\ req.pc = "L29"
        /\ requests' = [requests EXCEPT ![r] =
              IF item.product_id \notin DOMAIN products
              THEN end(req, "ValueError")
              ELSE LET current_stock == products[item.product_id].stock
                       new_stock == current_stock + quantity_change
                   IN  IF new_stock < 0
                       THEN end(req, "ValueError")
                       ELSE [req EXCEPT !.pc = "L40", !.new_stock = new_stock]]
        /\ UNCHANGED <<products, jvars, clock, qvars>>

\* update_stock lines 40-69: update_one sets the stock to new_stock; the log
\* and the alerts that follow touch no product.  The loop of
\* reduce_stock_for_order then goes to its next item.
update_stock_write(r) ==
    LET req == requests[r]
        item == req.items[req.index]
    IN  /\ req.pc = "L40"
        /\ products' = [products EXCEPT ![item.product_id].stock = req.new_stock]
        /\ requests' = [requests EXCEPT ![r] =
              IF req.index < Len(req.items)
              THEN [req EXCEPT !.pc = "L29", !.index = @ + 1]
              ELSE end(req, "returned")]
        /\ UNCHANGED <<jvars, clock, qvars>>

\* create_order lines 47-66: find_one for the item, 404 when there is no such
\* product, 400 when its stock does not cover the quantity
create_order_check(r) ==
    LET req == requests[r]
        item == req.items[req.index]
    IN  /\ req.pc = "L49"
        /\ requests' = [requests EXCEPT ![r] =
              IF item.product_id \notin DOMAIN products
              THEN end(req, "404")
              ELSE IF products[item.product_id].stock < item.quantity
              THEN end(req, "400")
              ELSE IF req.index < Len(req.items)
              THEN [req EXCEPT !.index = @ + 1]
              ELSE [req EXCEPT !.pc = "L99", !.index = 1]]
        /\ UNCHANGED <<products, jvars, clock, qvars>>

\* create_order line 99: insert_one(order_doc)
create_order_insert(r) ==
    /\ requests[r].pc = "L99"
    /\ requests' = [requests EXCEPT ![r].pc = "L104"]
    /\ UNCHANGED <<products, jvars, clock, qvars>>

\* create_order lines 103-107: update_one with $inc of -quantity for the item
create_order_inc(r) ==
    LET req == requests[r]
        item == req.items[req.index]
    IN  /\ req.pc = "L104"
        /\ products' = [products EXCEPT ![item.product_id].stock = @ - item.quantity]
        /\ requests' = [requests EXCEPT ![r] =
              IF req.index < Len(req.items)
              THEN [req EXCEPT !.index = @ + 1]
              ELSE end(req, "201")]
        /\ UNCHANGED <<jvars, clock, qvars>>

\* The shop with some stock of each product.
InitInventory ==
    /\ InitRender
    /\ \E stock \in [Products -> 0..MaxStock] :
          products = [p \in Products |-> product_document(stock[p])]
    /\ requests = [r \in RequestIds |-> NoRequest]

\* Requests served concurrently: each await of a request is a step.
NextInventory ==
    \E r \in RequestIds :
        \/ call_update_stock(r)
        \/ call_reduce_stock_for_order(r)
        \/ call_create_order(r)
        \/ update_stock_find(r)
        \/ update_stock_write(r)
        \/ create_order_check(r)
        \/ create_order_insert(r)
        \/ create_order_inc(r)

SpecInventory == InitInventory /\ [][NextInventory]_vars

\* ====================================================================
\* Properties
\* ====================================================================
AllStatuses == {StatusOrder[i] : i \in 1..Len(StatusOrder)} \cup {"failed"}
Rank(status) == CHOOSE i \in 1..Len(StatusOrder) : StatusOrder[i] = status
IsTerminal(status) == status \in TerminalStatuses
IsPrefix(s, t) == Len(s) <= Len(t) /\ SubSeq(t, 1, Len(s)) = s
Statuses(ws) == {ws[i].status : i \in 1..Len(ws)}
RunEnded(j) == pc[j] \in {"done", "crashed"}

\* C1: the status a run stores only moves forward through pending, validating,
\* cleaning, optimizing, rendering, exporting, completed, or jumps to failed
\* from a non-terminal status; no other status is stored.
C1_StatusOnlyMovesForward ==
    [][\A j \in DOMAIN jobs :
        LET old == jobs[j].status
            new == jobs'[j].status
        IN  /\ new \in AllStatuses
            /\ new # old =>
                 \/ new = "failed" /\ ~IsTerminal(old)
                 \/ new # "failed" /\ old # "failed" /\ Rank(new) > Rank(old)]_vars

\* C2: once a job's status is completed or failed, no later step of a run
\* (its exception handler included) changes it.
C2_TerminalStatusIsFinal ==
    [][\A j \in DOMAIN jobs :
        IsTerminal(jobs[j].status) => jobs'[j].status = jobs[j].status]_vars

\* C3: progress never decreases from one write of a run to the next while the
\* status is non-terminal, and never changes once the status is terminal.
C3_ProgressMonotoneThenFrozen ==
    [][\A j \in DOMAIN jobs :
        IF IsTerminal(jobs[j].status)
        THEN jobs'[j].progress = jobs[j].progress
        ELSE jobs'[j].progress >= jobs[j].progress]_vars

\* C3 witness: a run wrote failed over completed and progress stayed at the
\* last milestone.
C3_Witness ==
    \E j \in DOMAIN jobs :
        /\ jobs[j].status = "failed"
        /\ jobs[j].progress = 100
        /\ Len(writes[j]) = 8

\* C4: when a step of the try block raised while the job was non-terminal, the
\* run ends with failed as the last status written, error equal to the
\* exception's message and the failure line as the last log line.
C4_RaiseEndsFailed ==
    \A j \in DOMAIN jobs :
        (RunEnded(j) /\ exc[j] # None /\ "completed" \notin Statuses(writes[j])) =>
            /\ jobs[j].status = "failed"
            /\ jobs[j].error = exc[j]
            /\ writes[j] # <<>>
            /\ writes[j][Len(writes[j])].status = "failed"
            /\ jobs[j].logs # <<>>
            /\ jobs[j].logs[Len(jobs[j].logs)].text = "Processing failed: " \o Get(exc[j])

\* C5: started_at is non-null if and only if the status is not pending.
C5_StartedIffNotPending ==
    \A j \in DOMAIN jobs :
        (jobs[j].started_at # None) <=> (jobs[j].status # "pending")

\* C6: completed_at is null in every non-terminal status, is set by the first
\* terminal write, and never changes after it.
C6_CompletedAtSetOnce ==
    [][\A j \in DOMAIN jobs :
        /\ ~IsTerminal(jobs'[j].status) => jobs'[j].completed_at = None
        /\ IsTerminal(jobs'[j].status) => jobs'[j].completed_at # None
        /\ jobs[j].completed_at # None => jobs'[j].completed_at = jobs[j].completed_at]_vars

\* C7: for any sequence of update_job_status and update_job_outputs calls, the
\* logs before a call are a prefix of the logs after it.
C7_LogsAppendOnly ==
    [][\A j \in DOMAIN jobs : IsPrefix(jobs[j].logs, jobs'[j].logs)]_vars

\* C7 witness: two status calls have appended a line each and an outputs call
\* has stored files.
C7_Witness ==
    \E j \in DOMAIN jobs :
        /\ Len(jobs[j].logs) = 2
        /\ jobs[j].output_files # <<>>

\* C8: progress is 100 if and only if the status is completed.
C8_HundredIffCompleted ==
    \A j \in DOMAIN jobs :
        (jobs[j].progress = 100) <=> (jobs[j].status = "completed")

\* C9: a completed job has output_files["glb"] non-null, ar_config non-null
\* and ar_config.wrist_diameter greater than 0.
C9_CompletedHasOutputs ==
    \A j \in DOMAIN jobs :
        jobs[j].status = "completed" =>
            /\ "glb" \in DOMAIN jobs[j].output_files
            /\ jobs[j].output_files["glb"] # None
            /\ jobs[j].ar_config # None
            /\ Get(jobs[j].ar_config).wrist_diameter > 0

\* A run none of whose Job Store calls raised.
NoStoreFault(j) == exc[j] = None \/ Get(exc[j]) \notin StoreErrors

\* C10: whatever backend the settings select, a run whose Job Store calls all
\* return stores the same sequence of statuses and progress milestones and the
\* same set of output_files slots.
C10_BackendsAgree ==
    \A j1, j2 \in DOMAIN jobs :
        (pc[j1] = "done" /\ pc[j2] = "done" /\ NoStoreFault(j1) /\ NoStoreFault(j2)) =>
            /\ writes[j1] = writes[j2]
            /\ DOMAIN jobs[j1].output_files = DOMAIN jobs[j2].output_files

\* C11: an update_job_outputs call never removes an output slot that was
\* present before it: every slot of output_files before a step is still a slot
\* of output_files after it (a slot changes its value only when the call
\* supplies it).
C11_OutputSlotsKept ==
    [][\A j \in DOMAIN jobs :
        DOMAIN jobs[j].output_files \subseteq DOMAIN jobs'[j].output_files]_vars

\* C12: in every state a run can reach, error is non-null only if the status
\* is failed, and a step never makes a non-null error null again.
C12_ErrorOnlyWhenFailed ==
    [][\A j \in DOMAIN jobs :
        /\ jobs'[j].error # None => jobs'[j].status = "failed"
        /\ jobs[j].error # None => jobs'[j].error # None]_vars

\* C12 witness: the handler stored the message of the exception of a run
\* that had already written completed.
C12_Witness ==
    \E j \in DOMAIN jobs :
        /\ pc[j] = "done"
        /\ jobs[j].error = exc[j]
        /\ exc[j] # None
        /\ "completed" \in Statuses(writes[j])

\* C13: ar_config is non-null only if the status is completed.
C13_ArConfigOnlyWhenCompleted ==
    \A j \in DOMAIN jobs :
        jobs[j].ar_config # None => jobs[j].status = "completed"

\* The writes of a run that stored a pipeline stage (the handler's failed
\* write left out), and the stage the run was in when it raised.
StageWrites(ws) == SelectSeq(ws, LAMBDA w : w.status # "failed")
RaisedIn(j, stage) ==
    /\ exc[j] # None
    /\ StageWrites(writes[j]) # <<>>
    /\ StageWrites(writes[j])[Len(StageWrites(writes[j]))].status = stage

\* The progress the run last wrote together with the given stage.
MilestoneOf(ws, stage) ==
    LET s == SelectSeq(ws, LAMBDA w : w.status = stage)
    IN  s[Len(s)].progress

\* C14: a run that raised during the optimizing stage ends with status
\* failed and a non-empty error, with no output slot of the later stages in
\* output_files, and with progress at the milestone written for cleaning.
C14_OptimizingFailure ==
    \A j \in DOMAIN jobs :
        (RunEnded(j) /\ RaisedIn(j, "optimizing")) =>
            /\ jobs[j].status = "failed"
            /\ Truthy(jobs[j].error)
            /\ DOMAIN jobs[j].output_files \cap DOMAIN BlenderOutputFiles = {}
            /\ Some(jobs[j].progress) = MilestoneOf(writes[j], "cleaning")

\* C15: when Blender's validation of a job's input model reports issues, the
\* run writes no status later than validating (only validating and failed),
\* and it ends with the job failed and the issue text in error.
C15_InvalidModelStopsAtValidating ==
    \A j \in DOMAIN jobs :
        validate(TRUE, jobs[j].input_file).issues # << >> =>
            /\ Statuses(writes[j]) \subseteq {"validating", "failed"}
            /\ RunEnded(j) =>
                /\ jobs[j].status = "failed"
                /\ jobs[j].error = Some(validate(TRUE, jobs[j].input_file).issues[1])

\* C16: whenever a job's status is exporting, the outputs of the earlier
\* stages are already stored: output_files holds the optimized model under
\* glb with a URL, the update_job_outputs call having preceded the status
\* write.
C16_OutputsStoredBeforeExporting ==
    \A j \in DOMAIN jobs :
        jobs[j].status = "exporting" =>
            /\ "glb" \in DOMAIN jobs[j].output_files
            /\ Truthy(jobs[j].output_files["glb"])

\* The render jobs whose run has started and not finished.
InFlight == {j \in DOMAIN pc : pc[j] \notin {"none", "queued", "done", "crashed"}}

\* C17: at every moment at most max_workers render jobs have a run of
\* process_job_background that has started and not finished.
C17_InFlightRunsBounded ==
    Cardinality(InFlight) <= max_workers

\* C18: the running counter of get_queue_stats never exceeds max_workers.
C18_RunningCounterBounded ==
    get_queue_stats(task_queue).running <= max_workers

\* C18 witness: every worker is running a task and a further task waits in
\* the queue.
C18_Witness ==
    /\ get_queue_stats(task_queue).running = max_workers
    /\ get_queue_stats(task_queue).queue_size > 0

\* The task has been marked completed or failed.
TaskEnded(t) ==
    /\ t \in DOMAIN task_queue.tasks
    /\ task_queue.tasks[t].status \in {TaskStatus.COMPLETED, TaskStatus.FAILED}

C20_StopReturnsDrained ==
    /\ (lifespan = "L54" /\ \A w \in DOMAIN task_queue.workers :
                                task_queue.workers[w].at = "done")
          => task_queue.unfinished = 0
    /\ lifespan = "stopped" => \A t \in 1..tasks_at_stop : TaskEnded(t)

\* stop() has been called.
StopCalled == lifespan \in {"L54", "L57", "L60", "stopped"}

\* C21: once stop() has been called no step adds a task: enqueue rejects the
\* submission and tasks keeps its entries (before stop() every submission is
\* accepted).
C21_NoTaskAfterStop ==
    [][StopCalled => Len(task_queue'.tasks) = Len(task_queue.tasks)]_vars

\* C22: a run of process_job_background that has ended has left the job with
\* status completed or failed, whichever call of the run raised.
C22_EndedRunIsTerminal ==
    \A j \in DOMAIN jobs :
        RunEnded(j) => IsTerminal(jobs[j].status)

\* The stored slots of a job that hold a value.
StoredSlots(job) == {s \in DOMAIN job.output_files : job.output_files[s] # None}

\* C23: get_job_result answers a client error for an unknown job and for a job
\* that is not completed; for a completed job it answers the job's ar_config
\* and every non-null slot of its stored output_files.
C23_ResultHasStoredOutputs ==
    [][\A j \in ApiJobs :
        response'[j] # response[j] =>
            LET r == Get(response'[j]) IN
            IF j \notin DOMAIN jobs \/ jobs[j].status # "completed"
            THEN r.status_code \in 400..499
            ELSE /\ r.status_code = 200
                 /\ Get(r.body).ar_config = jobs[j].ar_config
                 /\ \A s \in StoredSlots(jobs[j]) :
                       /\ s \in DOMAIN Get(r.body).output_files
                       /\ Get(r.body).output_files[s] = jobs[j].output_files[s]]_vars

\* C24: create_job inserts a record under a job_id no existing job has, with
\* status pending, progress 0, no logs, null error and ar_config, started_at
\* and completed_at null and created_at set, and changes no other job record.
C24_CreatedJobIsFresh ==
    [][\A j \in JobIds :
        (j \notin DOMAIN jobs /\ j \in DOMAIN jobs') =>
            /\ \A k \in DOMAIN jobs : jobs'[k] = jobs[k] /\ jobs[k].job_id # jobs'[j].job_id
            /\ jobs'[j].job_id = j
            /\ jobs'[j].status = "pending"
            /\ jobs'[j].progress = 0
            /\ jobs'[j].logs = <<>>
            /\ jobs'[j].error = None
            /\ jobs'[j].ar_config = None
            /\ jobs'[j].started_at = None
            /\ jobs'[j].completed_at = None
            /\ jobs'[j].created_at # None]_vars

\* A job is created after another job's run has started.
C24_Witness ==
    /\ {"j1", "j2"} \subseteq DOMAIN jobs
    /\ jobs["j1"].status # "pending"
    /\ jobs["j1"].logs # <<>>
    /\ jobs["j1"].logs[1].at = 1
    /\ jobs["j2"].created_at = Some(2)
    /\ jobs["j2"].status = "pending"
    /\ pc["j2"] = "queued"

\* C25: the progress of every stored job is an integer from 0 to 100; a write
\* of a larger progress, 150 say, is not stored.
C25_ProgressInRange ==
    \A j \in DOMAIN jobs : jobs[j].progress \in 0..100

\* C26: the output_files of a document that create_document has just built
\* contains the slots glb, preview_front, preview_angle, preview_detail and
\* turntable.
C26_NewJobHasOutputSlots ==
    \A j \in DOMAIN jobs :
        pc[j] = "queued" =>
            {"glb", "preview_front", "preview_angle", "preview_detail", "turntable"}
                \subseteq DOMAIN jobs[j].output_files

\* The moves of a task's status.
TaskMoves == { <<TaskStatus.PENDING, TaskStatus.RUNNING>>,
               <<TaskStatus.RUNNING, TaskStatus.COMPLETED>>,
               <<TaskStatus.RUNNING, TaskStatus.FAILED>> }

\* The timestamps and the error of a task agree with its status.
TaskConsistent(task) ==
    /\ task.status \in {TaskStatus.PENDING, TaskStatus.RUNNING,
                        TaskStatus.COMPLETED, TaskStatus.FAILED}
    /\ (task.started_at # None) <=> (task.status # TaskStatus.PENDING)
    /\ (task.completed_at # None) <=>
            (task.status \in {TaskStatus.COMPLETED, TaskStatus.FAILED})
    /\ (task.error # None) <=> (task.status = TaskStatus.FAILED)

\* C27: the status of a task only moves from pending to running and from
\* running to completed or failed; started_at is set exactly when the status
\* has left pending, completed_at exactly when it is completed or failed, and
\* error exactly when it is failed.
C27_TaskStatusMoves ==
    [][/\ \A t \in DOMAIN task_queue'.tasks : TaskConsistent(task_queue'.tasks[t])
       /\ \A t \in DOMAIN task_queue.tasks :
            /\ t \in DOMAIN task_queue'.tasks
            /\ \/ task_queue'.tasks[t].status = task_queue.tasks[t].status
               \/ <<task_queue.tasks[t].status, task_queue'.tasks[t].status>> \in TaskMoves]_vars

\* Tasks in all four statuses at once.
C27_Witness ==
    {task_queue.tasks[t].status : t \in DOMAIN task_queue.tasks}
        = {TaskStatus.PENDING, TaskStatus.RUNNING, TaskStatus.COMPLETED, TaskStatus.FAILED}

\* The progress of the last write that carried one, 0 when none did.
LastProgress(ws) ==
    LET with == {i \in 1..Len(ws) : ws[i].progress # None}
    IN  IF with = {} THEN 0
        ELSE Get(ws[CHOOSE i \in with : \A k \in with : k <= i].progress)

\* C28: what a reader finds in a job record is the whole of the run's
\* update_job_status calls applied so far: the status and the progress of the
\* last one, a log line for each, and the error with the status failed; never
\* the status of a call without its log line, progress or error.
C28_StatusWriteIsWhole ==
    \A j \in DOMAIN jobs :
        LET ws == writes[j] IN
        /\ Len(jobs[j].logs) = Len(ws)
        /\ jobs[j].status = IF ws = <<>> THEN "pending" ELSE ws[Len(ws)].status
        /\ jobs[j].progress = LastProgress(ws)
        /\ (jobs[j].status = "failed") => jobs[j].error # None
        /\ IsTerminal(jobs[j].status) => jobs[j].completed_at # None

\* A reader between the writes of two runs: one has failed and the other is
\* three writes into its stages.
C28_Witness ==
    /\ {"j1", "j2"} \subseteq DOMAIN jobs
    /\ jobs["j1"].status = "failed" /\ jobs["j1"].error # None
    /\ Len(jobs["j2"].logs) >= 3
    /\ pc["j2"] \notin {"done", "crashed"}

\* C29: when reduce_stock_for_order has raised, and no other request has run
\* beside it, the stock of every product is what it was when the call began.
C29_ReduceIsAllOrNothing ==
    \A r \in RequestIds :
        ( /\ requests[r].op = "reduce_stock_for_order"
          /\ requests[r].result = Some("ValueError")
          /\ \A o \in RequestIds \ {r} : requests[o].op = "none" )
        => stock_of(products) = requests[r].before

\* C30: whatever the interleaving of create_order requests and update_stock
\* calls, the stock of a product is never negative.
C30_StockNeverNegative ==
    \A p \in DOMAIN products : products[p].stock >= 0

====
